---------------------------- MODULE Spec2Model ----------------------------
(***************************************************************************)
(* Taskify: an Express/Mongoose task service (backend/src/routes,          *)
(* backend/src/models) and the React client cache that mirrors it          *)
(* (frondend/taskify/src/App.jsx).                                         *)
(*                                                                         *)
(* Two specifications are given over the same variables:                   *)
(*   SpecApi  the task service driven by arbitrary HTTP callers            *)
(*   Spec     the React client (one browser tab) talking to the service    *)
(*                                                                         *)
(* Text is modelled as sequences of one-character strings where the code   *)
(* looks inside it (trim, the filter regular expression); the three status *)
(* words are TLA+ strings and Chars spells them out.  JSON values of a     *)
(* request body are tagged records, a missing key is a missing field.      *)
(* A Date is a natural number, NullDate is the null date.                  *)
(***************************************************************************)
EXTENDS Integers, Sequences, FiniteSets, TLC

VARIABLES
    store,        \* the tasks collection: _id -> document
    now,          \* the server clock read by Date.now
    nextId,       \* the next ObjectId the driver generates
    lastCall,     \* SpecApi: the last request served and its response
    tasks,        \* App state: the local task list
    loading,      \* App state: the loading flag
    filterStatus, \* App state: the active filter
    refreshTrigger, \* App state: the refresh counter
    notification, \* App state: the toast last raised by showNotification
    inflight,     \* the client's requests that have not settled yet
    nextOid,      \* names the client's requests
    sinceFail,    \* history: what happened since the last failed advance
    server,       \* the backend process: where index.js has got to
    connection    \* the Mongoose connection to the store

serverVars == <<store, now, nextId>>
clientVars == <<tasks, loading, filterStatus, refreshTrigger, notification,
                inflight, nextOid, sinceFail>>
bootVars == <<server, connection>>
vars == <<store, now, nextId, lastCall, tasks, loading, filterStatus,
          refreshTrigger, notification, inflight, nextOid, sinceFail,
          server, connection>>

---------------------------------------------------------------------------
(* Bounds of the model *)

\* SpecApi: requests served in one behaviour
MaxCalls == 3
\* SpecApi: documents the collection may hold
MaxDocs == 2
\* Spec: requests the client issues in one behaviour
MaxOps == 3
\* SpecBoot: requests the process serves in one behaviour
MaxBootCalls == 2

---------------------------------------------------------------------------
(* Data *)

NullDate == 0

Statuses == {"Pending", "In Progress", "Completed"}

\* the characters of the words the model uses
Chars(w) ==
    CASE w = "Pending"     -> <<"P","e","n","d","i","n","g">>
      [] w = "In Progress" -> <<"I","n"," ","P","r","o","g","r","e","s","s">>
      [] w = "Completed"   -> <<"C","o","m","p","l","e","t","e","d">>
      [] w = "pending"     -> <<"p","e","n","d","i","n","g">>
      [] w = "Done"        -> <<"D","o","n","e">>
      [] OTHER             -> <<>>

UpperCase == <<"A","B","C","D","E","F","G","H","I","J","K","L","M",
               "N","O","P","Q","R","S","T","U","V","W","X","Y","Z">>
LowerCase == <<"a","b","c","d","e","f","g","h","i","j","k","l","m",
               "n","o","p","q","r","s","t","u","v","w","x","y","z">>

\* one character, case folded
Lower(c) ==
    IF \E i \in 1..26 : UpperCase[i] = c
    THEN LowerCase[CHOOSE i \in 1..26 : UpperCase[i] = c]
    ELSE c

LowerSeq(s) == [i \in 1..Len(s) |-> Lower(s[i])]

\* JSON values of a request body
JNull == [t |-> "null"]
JStr(s) == [t |-> "str", s |-> s]
JDate(d) == [t |-> "date", d |-> d]
JId(i) == [t |-> "id", i |-> i]

Has(body, f) == f \in DOMAIN body

---------------------------------------------------------------------------
(* The Task schema (backend/src/models/taskModel.js) *)

\* String.prototype.trim, applied by the title path's trim setter
RECURSIVE TrimLeft(_)
TrimLeft(s) == IF s # <<>> /\ Head(s) = " " THEN TrimLeft(Tail(s)) ELSE s

RECURSIVE TrimRight(_)
TrimRight(s) ==
    IF s # <<>> /\ s[Len(s)] = " " THEN TrimRight(SubSeq(s, 1, Len(s) - 1)) ELSE s

Trim(s) == TrimRight(TrimLeft(s))

\* title: String, required, trim
TitleOk(v) == v.t = "str" /\ Trim(v.s) # <<>>

\* the description path without its required validator
DescriptionOk_NotRequired(v) == v.t = "str"

\* description: String, required
DescriptionOk(v) == v.t = "str" /\ v.s # <<>>

\* the status path without its enum validator
StatusOk_NoEnum(v) == v.t = "str" /\ v.s # ""

\* status: String, required, enum
StatusOk(v) == v.t = "str" /\ v.s # "" /\ v.s \in Statuses

\* a Date path: null stays null
CastDate(v) == IF v.t = "date" THEN v.d ELSE NullDate

\* the value a path stores for the JSON value v (casting and setters)
CastPath(f, v) ==
    CASE f = "title"       -> Trim(v.s)
      [] f = "description" -> v.s
      [] f = "status"      -> v.s
      [] f = "dueDate"     -> CastDate(v)
      [] f = "createdAt"   -> CastDate(v)
      [] f = "_id"         -> v.i

\* the validators of the paths that body names (required, enum)
PathsOk(body) ==
    /\ Has(body, "title") => TitleOk(body.title)
    /\ Has(body, "description") => DescriptionOk(body.description)
    /\ Has(body, "status") => StatusOk(body.status)

\* validation of a new document: the required paths must be there
DocOk(body) ==
    /\ Has(body, "title")
    /\ Has(body, "description")
    /\ PathsOk(body)

\* new Task(body): the defaults fill the paths the body leaves undefined
NewDoc(body, id, time) ==
    [_id         |-> id,
     title       |-> CastPath("title", body.title),
     description |-> CastPath("description", body.description),
     status      |-> IF Has(body, "status") THEN CastPath("status", body.status)
                     ELSE "Pending",
     dueDate     |-> IF Has(body, "dueDate") THEN CastPath("dueDate", body.dueDate)
                     ELSE NullDate,
     createdAt   |-> IF Has(body, "createdAt")
                     THEN CastPath("createdAt", body.createdAt)
                     ELSE time]

\* $set of the paths the update names
SetPaths(doc, body) ==
    [f \in DOMAIN doc |-> IF Has(body, f) THEN CastPath(f, body[f]) ELSE doc[f]]

---------------------------------------------------------------------------
(* The route handlers (backend/src/routes/taskRoutes.js).  Each gives the   *)
(* set of outcomes [store, code, data] of one request; up is whether the   *)
(* store answers (FALSE: the Mongoose call rejects).                       *)

BadId == 0

Reply(st, code, data) == [store |-> st, code |-> code, data |-> data]

\* new RegExp(`^${status}$`, 'i') throws on a quantifier with nothing to repeat
RegExpValid(p) ==
    \A i \in 1..Len(p) : p[i] = "*" => (i > 1 /\ p[i - 1] # "*")

AtomMatch(a, c) == a = "." \/ Lower(a) = Lower(c)

\* does the whole of s match the pattern p (literals, ".", "x*"), ignoring case
RECURSIVE ReMatch(_, _)
ReMatch(p, s) ==
    IF p = <<>> THEN s = <<>>
    ELSE IF Len(p) >= 2 /\ p[2] = "*"
    THEN \/ ReMatch(SubSeq(p, 3, Len(p)), s)
         \/ s # <<>> /\ AtomMatch(p[1], s[1]) /\ ReMatch(p, Tail(s))
    ELSE s # <<>> /\ AtomMatch(p[1], s[1]) /\ ReMatch(Tail(p), Tail(s))

\* the documents Task.find(filter) selects
Find(st, query) ==
    IF Has(query, "status") /\ query.status # <<>>
    THEN {st[i] : i \in {j \in DOMAIN st : ReMatch(query.status, Chars(st[j].status))}}
    ELSE {st[i] : i \in DOMAIN st}

\* .sort({ createdAt: -1 }): every order of D that descends in createdAt
SortDesc(D) ==
    {s \in [1..Cardinality(D) -> D] :
        /\ \A i, j \in 1..Cardinality(D) : i # j => s[i] # s[j]
        /\ \A i, j \in 1..Cardinality(D) : i < j => s[i].createdAt >= s[j].createdAt}

getAllTasks(st, query, up) ==
    IF Has(query, "status") /\ query.status # <<>> /\ ~RegExpValid(query.status)
    THEN {Reply(st, 500, <<>>)}
    ELSE IF ~up THEN {Reply(st, 500, <<>>)}
    ELSE {Reply(st, 200, s) : s \in SortDesc(Find(st, query))}

createTask(st, body, id, time, up) ==
    IF ~DocOk(body) \/ ~up THEN {Reply(st, 400, <<>>)}
    ELSE LET doc == NewDoc(body, id, time)
         IN  {Reply([i \in DOMAIN st \cup {id} |-> IF i = id THEN doc ELSE st[i]],
                    201, <<doc>>)}

getTaskById(st, id, up) ==
    IF id = BadId \/ ~up THEN {Reply(st, 500, <<>>)}
    ELSE IF id \notin DOMAIN st THEN {Reply(st, 404, <<>>)}
    ELSE {Reply(st, 200, <<st[id]>>)}

\* an update without the null check: 200 and null for an id it did not find
updateTask_NoNotFound(st, id, body, up) ==
    IF id = BadId \/ ~PathsOk(body) \/ ~up THEN {Reply(st, 400, <<>>)}
    ELSE IF id \notin DOMAIN st THEN {Reply(st, 200, <<>>)}
    ELSE IF Has(body, "_id") /\ CastPath("_id", body._id) # id
    THEN {Reply(st, 400, <<>>)}
    ELSE LET doc == SetPaths(st[id], body)
         IN  {Reply([st EXCEPT ![id] = doc], 200, <<doc>>)}

updateTask(st, id, body, up) ==
    IF id = BadId \/ ~PathsOk(body) \/ ~up THEN {Reply(st, 400, <<>>)}
    ELSE IF id \notin DOMAIN st THEN {Reply(st, 404, <<>>)}
    ELSE IF Has(body, "_id") /\ CastPath("_id", body._id) # id
    THEN {Reply(st, 400, <<>>)}
    ELSE LET doc == SetPaths(st[id], body)
         IN  {Reply([st EXCEPT ![id] = doc], 200, <<doc>>)}

\* a delete that answers 204 whether or not it found the task
deleteTask_Silent(st, id, up) ==
    IF id = BadId \/ ~up THEN {Reply(st, 500, <<>>)}
    ELSE {Reply([i \in DOMAIN st \ {id} |-> st[i]], 204, <<>>)}

deleteTask(st, id, up) ==
    IF id = BadId \/ ~up THEN {Reply(st, 500, <<>>)}
    ELSE IF id \notin DOMAIN st THEN {Reply(st, 404, <<>>)}
    ELSE {Reply([i \in DOMAIN st \ {id} |-> st[i]], 204, <<>>)}

---------------------------------------------------------------------------
(* SpecApi: the service driven by arbitrary callers, one request at a time *)
(* (each store operation is atomic; router.get/post/put/delete).           *)

NoCall == [n |-> 0, method |-> "none", id |-> BadId, body |-> <<>>,
           query |-> <<>>, up |-> TRUE, code |-> 0, data |-> <<>>]

\* index.js has connected to the store and listens
ServerUp ==
    /\ server = "listening"
    /\ connection = "connected"

\* useState's initial values, before the first effect runs
ClientInitial ==
    /\ tasks = <<>>
    /\ loading = FALSE
    /\ filterStatus = "All"
    /\ refreshTrigger = 0
    /\ notification = "none"
    /\ inflight = {}
    /\ nextOid = 0
    /\ sinceFail = "none"

TitleInputs == {JNull, JStr(<<>>), JStr(<<" ">>), JStr(<<" ", "a">>)}
DescriptionInputs == {JStr(<<>>), JStr(<<"d">>)}
StatusInputs == {JNull, JStr("In Progress"), JStr("Completed"), JStr("pending")}
DateInputs == {JNull, JDate(1)}
IdInputs == {BadId, 1, 2}

BodyValues ==
    [title |-> TitleInputs, description |-> DescriptionInputs,
     status |-> StatusInputs, dueDate |-> DateInputs, createdAt |-> DateInputs,
     _id |-> {JId(1), JId(2)}]

\* the body { f: v } for every value v the model gives f
OneField(f) == {[x \in {f} |-> v] : v \in BodyValues[f]}

Merge(a, b) == [f \in DOMAIN a \cup DOMAIN b |-> IF f \in DOMAIN a THEN a[f] ELSE b[f]]

\* POST bodies: title and description given or not, and at most one more field
CreateBodies ==
    {Merge(Merge(t, d), e) :
        t \in {<<>>} \cup OneField("title"),
        d \in {<<>>} \cup OneField("description"),
        e \in {<<>>} \cup OneField("status") \cup OneField("dueDate")
                     \cup OneField("createdAt")}

\* PUT bodies: at most one field
UpdateBodies == {<<>>} \cup UNION {OneField(f) : f \in DOMAIN BodyValues}

\* GET /tasks, GET /tasks?status=...
QueryInputs ==
    {<<>>} \cup
    {[status |-> q] : q \in {<<>>, Chars("Pending"), Chars("pending"),
                             Chars("Completed"), <<"P", "e", "n", "d">>,
                             <<".", "*">>, <<"*">>,
                             <<"P", ".", "n", "d", "i", "n", "g">>}}

Served(method, id, body, query, up, r) ==
    /\ lastCall' = [n |-> lastCall.n + 1, method |-> method, id |-> id,
                    body |-> body, query |-> query, up |-> up,
                    code |-> r.code, data |-> r.data]
    /\ store' = r.store

ApiList ==
    \E query \in QueryInputs, up \in BOOLEAN :
    \E r \in getAllTasks(store, query, up) :
        /\ lastCall.n < MaxCalls
        /\ Served("list", BadId, <<>>, query, up, r)
        /\ UNCHANGED <<now, nextId>>
        /\ UNCHANGED <<clientVars, bootVars>>

ApiCreate ==
    \E body \in CreateBodies, up \in BOOLEAN :
    \E r \in createTask(store, body, nextId, now, up) :
        /\ lastCall.n < MaxCalls
        /\ Cardinality(DOMAIN store) < MaxDocs
        /\ Served("create", BadId, body, <<>>, up, r)
        /\ now' = IF r.code = 201 THEN now + 1 ELSE now
        /\ nextId' = IF r.code = 201 THEN nextId + 1 ELSE nextId
        /\ UNCHANGED <<clientVars, bootVars>>

ApiGet ==
    \E id \in IdInputs, up \in BOOLEAN :
    \E r \in getTaskById(store, id, up) :
        /\ lastCall.n < MaxCalls
        /\ Served("get", id, <<>>, <<>>, up, r)
        /\ UNCHANGED <<now, nextId>>
        /\ UNCHANGED <<clientVars, bootVars>>

ApiUpdate ==
    \E id \in IdInputs, body \in UpdateBodies, up \in BOOLEAN :
    \E r \in updateTask(store, id, body, up) :
        /\ lastCall.n < MaxCalls
        /\ Served("update", id, body, <<>>, up, r)
        /\ UNCHANGED <<now, nextId>>
        /\ UNCHANGED <<clientVars, bootVars>>

ApiDelete ==
    \E id \in IdInputs, up \in BOOLEAN :
    \E r \in deleteTask(store, id, up) :
        /\ lastCall.n < MaxCalls
        /\ Served("delete", id, <<>>, <<>>, up, r)
        /\ UNCHANGED <<now, nextId>>
        /\ UNCHANGED <<clientVars, bootVars>>

InitApi ==
    /\ store = <<>>
    /\ now = 2
    /\ nextId = 1
    /\ lastCall = NoCall
    /\ ClientInitial
    /\ ServerUp

NextApi == ApiList \/ ApiCreate \/ ApiGet \/ ApiUpdate \/ ApiDelete

SpecApi == InitApi /\ [][NextApi]_vars

---------------------------------------------------------------------------
(* The React client (frondend/taskify/src/App.jsx).  A state update, the   *)
(* render it causes and the effects of that render are one step; a request *)
(* is "sent" until the server handles it or the network drops it, then     *)
(* "answered" or "failed" until the client's continuation runs.  The toast  *)
(* is followed up to showNotification; its hiding after four seconds, the  *)
(* error banner and the modal and dropdown flags are presentation and are  *)
(* left out.                                                               *)

\* the switch with its last case falling short of the cycle
nextStatus_NoReopen(status) ==
    CASE status = "Pending"     -> "In Progress"
      [] status = "In Progress" -> "Completed"
      [] OTHER                  -> "Completed"

\* TaskItem: the status the advance button asks for
nextStatus(status) ==
    CASE status = "Pending"     -> "In Progress"
      [] status = "In Progress" -> "Completed"
      [] status = "Completed"   -> "Pending"
      [] OTHER                  -> "Pending"

\* what the form hands to onSave: trimmed, non-empty title and description
TaskDataInputs ==
    {[title |-> JStr(<<"a">>), description |-> JStr(<<"d">>), dueDate |-> JNull]}

Op(kind, id, status, body, snap) ==
    [oid |-> nextOid + 1, kind |-> kind, stage |-> "sent", id |-> id,
     status |-> status, body |-> body, snap |-> snap, code |-> 0,
     data |-> <<>>, solo |-> FALSE]

\* the request op joins those in flight; rest are the ones still unsettled
Issue(op, rest) ==
    /\ inflight' = {[o EXCEPT !.solo = FALSE] : o \in rest}
                      \cup {[op EXCEPT !.solo = (rest = {})]}
    /\ nextOid' = nextOid + 1

\* a fetch that forgets the status parameter
FetchTasks_NoFilter(filter, rest) ==
    /\ Issue(Op("list", BadId, "All", <<>>, <<>>), rest)
    /\ loading' = TRUE

\* the effect's fetchTasks: GET with the filter of the render it belongs to
FetchTasks(filter, rest) ==
    /\ Issue(Op("list", BadId, filter, <<>>, <<>>), rest)
    /\ loading' = TRUE

\* a refresh counter the effect does not depend on: no fetch follows
Refresh_NoEffect(rest) ==
    /\ refreshTrigger' = refreshTrigger + 1
    /\ inflight' = rest
    /\ UNCHANGED <<nextOid, loading>>

\* setRefreshTrigger(prev => prev + 1), and the effect that re-runs on it
Refresh(rest) ==
    /\ refreshTrigger' = refreshTrigger + 1
    /\ FetchTasks(filterStatus, rest)

\* a user action after a failed advance ends the quiet period after it
UserActed == sinceFail' = IF sinceFail = "none" THEN "none" ELSE "dirty"

\* the first render's effect
Mount ==
    /\ nextOid = 0
    /\ FetchTasks(filterStatus, inflight)
    /\ UNCHANGED <<tasks, filterStatus, refreshTrigger, notification, sinceFail>>
    /\ UNCHANGED <<serverVars, lastCall, bootVars>>

\* Spec: the entries of the filter menu the user picks from
FilterInputs == {"All", "Pending"}

\* the filter menu: setFilterStatus, then the effect re-runs
SetFilter ==
    \E f \in FilterInputs :
        /\ nextOid > 0
        /\ nextOid < MaxOps
        /\ f # filterStatus
        /\ filterStatus' = f
        /\ FetchTasks(f, inflight)
        /\ UserActed
        /\ UNCHANGED <<tasks, refreshTrigger, notification>>
        /\ UNCHANGED <<serverVars, lastCall, bootVars>>

\* an optimistic update whose map leaves out the comparison of ids
Optimistic_AllTasks(list, id, newStatus) ==
    [i \in 1..Len(list) |-> [list[i] EXCEPT !.status = newStatus]]

\* an optimistic update that compares the wrong key and so matches no task
Optimistic_WrongKey(list, id, newStatus) == list

\* the optimistic setTasks(prevTasks => prevTasks.map(...))
Optimistic(list, id, newStatus) ==
    [i \in 1..Len(list) |->
        IF list[i]._id = id THEN [list[i] EXCEPT !.status = newStatus] ELSE list[i]]

\* the advance button of the i-th card: updateTaskStatus up to its await
ClickAdvance ==
    \E i \in 1..Len(tasks) :
        LET id == tasks[i]._id
            newStatus == nextStatus(tasks[i].status)
        IN  /\ nextOid < MaxOps
            /\ tasks' = Optimistic(tasks, id, newStatus)
            /\ Issue(Op("update", id, newStatus, [status |-> JStr(newStatus)], tasks),
                     inflight)
            /\ UserActed
            /\ UNCHANGED <<loading, filterStatus, refreshTrigger, notification>>
            /\ UNCHANGED <<serverVars, lastCall, bootVars>>

\* the form's submit: createTask up to its await
SubmitCreate ==
    \E taskData \in TaskDataInputs :
        /\ nextOid > 0
        /\ nextOid < MaxOps
        /\ loading' = TRUE
        /\ Issue(Op("create", BadId, "", taskData, <<>>), inflight)
        /\ UserActed
        /\ UNCHANGED <<tasks, filterStatus, refreshTrigger, notification>>
        /\ UNCHANGED <<serverVars, lastCall, bootVars>>

\* the delete button of the i-th card: deleteTask up to its await
ClickDelete ==
    \E i \in 1..Len(tasks) :
        /\ nextOid < MaxOps
        /\ loading' = TRUE
        /\ Issue(Op("delete", tasks[i]._id, "", <<>>, <<>>), inflight)
        /\ UserActed
        /\ UNCHANGED <<tasks, filterStatus, refreshTrigger, notification>>
        /\ UNCHANGED <<serverVars, lastCall, bootVars>>

\* the query string fetchTasks builds
QueryOf(filter) == IF filter # "All" THEN [status |-> Chars(filter)] ELSE <<>>

\* the outcomes of the route that op's request reaches
Route(op, up) ==
    CASE op.kind = "list"   -> getAllTasks(store, QueryOf(op.status), up)
      [] op.kind = "create" -> createTask(store, op.body, nextId, now, up)
      [] op.kind = "update" -> updateTask(store, op.id, op.body, up)
      [] op.kind = "delete" -> deleteTask(store, op.id, up)

\* the server handles a request; the response may be lost on its way back
ServerHandle ==
    \E op \in {o \in inflight : o.stage = "sent"}, up \in BOOLEAN, lost \in BOOLEAN :
    \E r \in Route(op, up) :
        /\ store' = r.store
        /\ now' = IF r.code = 201 THEN now + 1 ELSE now
        /\ nextId' = IF r.code = 201 THEN nextId + 1 ELSE nextId
        /\ inflight' = (inflight \ {op}) \cup
              {IF lost THEN [op EXCEPT !.stage = "failed"]
               ELSE [op EXCEPT !.stage = "answered", !.code = r.code,
                               !.data = IF op.kind = "list" THEN r.data ELSE <<>>]}
        /\ UNCHANGED <<tasks, loading, filterStatus, refreshTrigger, notification,
                       nextOid, sinceFail, lastCall, bootVars>>

\* the request never reaches the server: fetch rejects
NetFail ==
    \E op \in inflight :
        /\ op.stage = "sent"
        /\ inflight' = (inflight \ {op}) \cup {[op EXCEPT !.stage = "failed"]}
        /\ UNCHANGED <<tasks, loading, filterStatus, refreshTrigger, notification,
                       nextOid, sinceFail, lastCall, bootVars>>
        /\ UNCHANGED serverVars

Settled(op) == op.stage \in {"answered", "failed"}

\* response.ok
ResponseOk(op) == op.stage = "answered" /\ op.code >= 200 /\ op.code <= 299

\* a fetchTasks that drops its answer when a request was issued after it
SettleList_LatestOnly ==
    \E op \in inflight :
        /\ op.kind = "list"
        /\ Settled(op)
        /\ tasks' = IF ResponseOk(op) /\ op.oid = nextOid THEN op.data ELSE tasks
        /\ loading' = FALSE
        /\ inflight' = inflight \ {op}
        /\ sinceFail' = IF ~ResponseOk(op) /\ sinceFail # "none" THEN "dirty"
                        ELSE sinceFail
        /\ UNCHANGED <<filterStatus, refreshTrigger, notification, nextOid>>
        /\ UNCHANGED <<serverVars, lastCall, bootVars>>

\* fetchTasks after its await
SettleList ==
    \E op \in inflight :
        /\ op.kind = "list"
        /\ Settled(op)
        /\ tasks' = IF ResponseOk(op) THEN op.data ELSE tasks
        /\ loading' = FALSE
        /\ inflight' = inflight \ {op}
        /\ sinceFail' = IF ~ResponseOk(op) /\ sinceFail # "none" THEN "dirty"
                        ELSE sinceFail
        /\ UNCHANGED <<filterStatus, refreshTrigger, notification, nextOid>>
        /\ UNCHANGED <<serverVars, lastCall, bootVars>>

\* createTask after its await
SettleCreate ==
    \E op \in inflight :
        /\ op.kind = "create"
        /\ Settled(op)
        /\ IF ResponseOk(op)
           THEN /\ notification' = "created"
                /\ Refresh(inflight \ {op})
           ELSE /\ notification' = "create error"
                /\ loading' = FALSE
                /\ inflight' = inflight \ {op}
                /\ UNCHANGED <<refreshTrigger, nextOid>>
        /\ UNCHANGED <<tasks, filterStatus, sinceFail>>
        /\ UNCHANGED <<serverVars, lastCall, bootVars>>

\* a rollback that puts back the status of the one task only
Rollback_OneTask(list, op) ==
    LET old == {op.snap[j].status : j \in {k \in 1..Len(op.snap) : op.snap[k]._id = op.id}}
    IN  [i \in 1..Len(list) |->
            IF list[i]._id = op.id /\ old # {}
            THEN [list[i] EXCEPT !.status = CHOOSE st \in old : TRUE]
            ELSE list[i]]

\* the catch block's setTasks(tempOriginalTasks)
Rollback(list, op) == op.snap

\* updateTaskStatus after its await
SettleUpdate ==
    \E op \in inflight :
        /\ op.kind = "update"
        /\ Settled(op)
        /\ IF ResponseOk(op)
           THEN /\ notification' = "status updated"
                /\ inflight' = inflight \ {op}
                /\ UNCHANGED <<tasks, loading, refreshTrigger, nextOid, sinceFail>>
           ELSE /\ notification' = "update error"
                /\ tasks' = Rollback(tasks, op)
                /\ Refresh(inflight \ {op})
                /\ sinceFail' = IF inflight \ {op} = {} THEN "clean" ELSE "racy"
        /\ UNCHANGED filterStatus
        /\ UNCHANGED <<serverVars, lastCall, bootVars>>

\* deleteTask after its await: 204 and 404 both count as deleted
SettleDelete ==
    \E op \in inflight :
        /\ op.kind = "delete"
        /\ Settled(op)
        /\ IF op.stage = "answered" /\ (op.code = 204 \/ op.code = 404)
           THEN /\ notification' = "deleted"
                /\ Refresh(inflight \ {op})
           ELSE /\ notification' = "delete error"
                /\ loading' = FALSE
                /\ inflight' = inflight \ {op}
                /\ UNCHANGED <<refreshTrigger, nextOid>>
        /\ UNCHANGED <<tasks, filterStatus, sinceFail>>
        /\ UNCHANGED <<serverVars, lastCall, bootVars>>

\* a task created earlier, at time i
InitDoc(i, status) ==
    [_id |-> i, title |-> <<"a">>, description |-> <<"d">>, status |-> status,
     dueDate |-> NullDate, createdAt |-> i]

\* Spec: the collection when the page is opened
InitStore == <<InitDoc(1, "Completed"), InitDoc(2, "Pending")>>

Init ==
    /\ store = InitStore
    /\ now = Len(InitStore) + 1
    /\ nextId = Len(InitStore) + 1
    /\ lastCall = NoCall
    /\ ClientInitial
    /\ ServerUp

Next ==
    \/ Mount
    \/ SetFilter
    \/ ClickAdvance
    \/ SubmitCreate
    \/ ClickDelete
    \/ ServerHandle
    \/ NetFail
    \/ SettleList
    \/ SettleCreate
    \/ SettleUpdate
    \/ SettleDelete

Spec == Init /\ [][Next]_vars

---------------------------------------------------------------------------
(* Claims about the client, checked under Spec *)

\* the request op is in flight now and its continuation runs in this step
Gone(op) == \A o \in inflight' : o.oid # op.oid

\* a request is issued in this step
IssuedNow(o) == o \in inflight' /\ o.oid = nextOid + 1 /\ nextOid' = nextOid + 1

\* the statuses the list shows for the task id
StatusesOf(list, id) == {list[i].status : i \in {j \in 1..Len(list) : list[j]._id = id}}

\* the answers GET /tasks gives for the current filter and store
ListNow == {r.data : r \in getAllTasks(store, QueryOf(filterStatus), TRUE)}

\* C1: the snapshot an advance takes is the whole list before its optimistic
\* mutation, it is kept while the request is in flight, and when the request
\* fails the list becomes that snapshot again, whatever happened in between.
RollbackRestoresList ==
    [][/\ \A o \in inflight' :
             (IssuedNow(o) /\ o.kind = "update") => o.snap = tasks
       /\ \A op \in inflight, o \in inflight' :
             o.oid = op.oid => o.snap = op.snap
       /\ \A op \in inflight :
             (op.kind = "update" /\ Settled(op) /\ ~ResponseOk(op) /\ Gone(op))
                => tasks' = op.snap]_vars

\* a rollback has just wiped the optimistic change of another advance that is
\* still in flight: only that advance and the re-fetch are in flight
RollbackWipedOther ==
    /\ sinceFail = "racy"
    /\ notification = "update error"
    /\ Cardinality(inflight) = 2
    /\ \E f \in inflight : f.kind = "list" /\ f.oid = nextOid /\ f.stage = "sent"
    /\ \E b \in inflight :
          /\ b.kind = "update"
          /\ b.status \notin StatusesOf(tasks, b.id)
          /\ StatusesOf(tasks, b.id) # {}
          /\ tasks # b.snap

\* after a failed advance with nothing else in flight, only the re-fetch with
\* the current filter is in flight until it settles
RefetchIssued ==
    sinceFail = "clean" =>
        \/ inflight = {}
        \/ \E op \in inflight :
              inflight = {op} /\ op.kind = "list" /\ op.status = filterStatus

\* C2 as stated: after a failed advance, once nothing is in flight (no fetch
\* having failed, no user action since), the cache is the store's list for the
\* current filter, whatever else was in flight when the advance failed.
ConsistentAfterFailure ==
    /\ RefetchIssued
    /\ (sinceFail \in {"clean", "racy"} /\ inflight = {}) => tasks \in ListNow

\* C2 amended: the same, when nothing else was in flight at the failure.
ConsistentAfterLoneFailure ==
    /\ RefetchIssued
    /\ (sinceFail = "clean" /\ inflight = {}) => tasks \in ListNow

\* a lone advance failed and its re-fetch has settled
LoneFailureSettled ==
    /\ sinceFail = "clean"
    /\ inflight = {}
    /\ notification = "update error"
    /\ tasks # <<>>

\* C3 as stated: a successful advance leaves the cache alone, and if it is the
\* last request to settle the cache shows the store's status for its task.
OptimisticMatchesServer ==
    [][\A op \in inflight :
          (op.kind = "update" /\ ResponseOk(op) /\ Gone(op)) =>
              /\ tasks' = tasks
              /\ (inflight' = {} /\ op.id \in DOMAIN store') =>
                    StatusesOf(tasks', op.id) \subseteq {store'[op.id].status}]_vars

\* C3 amended: a successful advance leaves the cache alone, and if no other
\* request was in flight between its click and its success the cache shows
\* the store's status for its task, the target status.
LoneAdvanceMatchesServer ==
    [][\A op \in inflight :
          (op.kind = "update" /\ ResponseOk(op) /\ Gone(op)) =>
              /\ tasks' = tasks
              /\ op.solo =>
                    /\ op.id \in DOMAIN store'
                    /\ store'[op.id].status = op.status
                    /\ StatusesOf(tasks', op.id) = {op.status}]_vars

\* one advance was made after the first fetch settled, and it succeeded
LoneAdvanceSucceeded ==
    /\ notification = "status updated"
    /\ inflight = {}
    /\ nextOid = 2
    /\ \E i \in 1..Len(tasks) : tasks[i] = store[tasks[i]._id]

\* the effect's fetch with the new render's filter is issued in this step
FetchIssued ==
    \E o \in inflight' :
        IssuedNow(o) /\ o.kind = "list" /\ o.stage = "sent" /\ o.status = filterStatus'

\* C4 as stated: a change of filter, a successful create or delete, and an
\* advance that settles (confirmed or rolled back) each trigger a re-fetch
\* with the current filter.
RefetchOnEveryCompletion ==
    [][/\ filterStatus' # filterStatus => FetchIssued
       /\ \A op \in inflight :
             /\ (op.kind = "create" /\ ResponseOk(op) /\ Gone(op)) => FetchIssued
             /\ (op.kind = "delete" /\ ResponseOk(op) /\ Gone(op)) => FetchIssued
             /\ (op.kind = "update" /\ Settled(op) /\ Gone(op)) => FetchIssued]_vars

\* C4 amended: a change of filter, a successful create or delete, and a rolled
\* back advance each trigger a re-fetch with the current filter; a confirmed
\* advance triggers none and leaves the cache as it is.
RefetchExceptOnConfirm ==
    [][/\ filterStatus' # filterStatus => FetchIssued
       /\ \A op \in inflight :
             /\ (op.kind = "create" /\ ResponseOk(op) /\ Gone(op)) => FetchIssued
             /\ (op.kind = "delete" /\ ResponseOk(op) /\ Gone(op)) => FetchIssued
             /\ (op.kind = "update" /\ Settled(op) /\ ~ResponseOk(op) /\ Gone(op))
                   => FetchIssued
             /\ (op.kind = "update" /\ ResponseOk(op) /\ Gone(op))
                   => (inflight' = inflight \ {op} /\ tasks' = tasks)]_vars

\* an advance was confirmed under a status filter and nothing is in flight:
\* the cache still shows the task, whose status is no longer the filter's
ConfirmedTaskStaysListed ==
    /\ filterStatus \in Statuses
    /\ inflight = {}
    /\ notification = "status updated"
    /\ \E i \in 1..Len(tasks) :
          /\ tasks[i].status # filterStatus
          /\ tasks[i] = store[tasks[i]._id]

Cycle ==
    ("Pending" :> "In Progress") @@ ("In Progress" :> "Completed")
        @@ ("Completed" :> "Pending")

\* C5: nextStatus is the three-cycle Pending, In Progress, Completed, Pending,
\* so three advances give the status back; every advance in flight asks for
\* the cycle's successor of the status its card showed.
AdvanceIsCyclic ==
    /\ \A S \in Statuses :
          /\ nextStatus(S) = Cycle[S]
          /\ nextStatus(nextStatus(nextStatus(S))) = S
    /\ \A op \in inflight :
          op.kind = "update" =>
              \A S \in StatusesOf(op.snap, op.id) : op.status = Cycle[S]

\* an advance of a Completed task is in flight
ReopenInFlight ==
    \E op \in inflight :
        /\ op.kind = "update"
        /\ op.status = "Pending"
        /\ StatusesOf(op.snap, op.id) = {"Completed"}

---------------------------------------------------------------------------
(* Claims about the service, checked under SpecApi *)

Docs == {store[i] : i \in DOMAIN store}

\* the statuses equal to the query word when case is ignored
SameWord(status, word) == LowerSeq(Chars(status)) = LowerSeq(word)

Descending(s) == \A i, j \in 1..Len(s) : i < j => s[i].createdAt >= s[j].createdAt

\* s lists exactly the documents of D, each once
ListsExactly(s, D) ==
    /\ Len(s) = Cardinality(D)
    /\ {s[i] : i \in 1..Len(s)} = D

\* C6: GET /tasks?status=S answers with exactly the tasks whose status is S
\* (case ignored), newest first; without a status it answers with all tasks.
\* An empty S is read as no filter.
FilterProperty ==
    (lastCall.method = "list" /\ lastCall.up) =>
        /\ lastCall.code = 200
        /\ Descending(lastCall.data)
        /\ IF Has(lastCall.query, "status") /\ lastCall.query.status # <<>>
           THEN ListsExactly(lastCall.data,
                    {d \in Docs : SameWord(d.status, lastCall.query.status)})
           ELSE ListsExactly(lastCall.data, Docs)

\* C7: a task a POST persists has status Pending, whatever the body carries.
CreatedPending ==
    (lastCall.method = "create" /\ lastCall.code = 201) =>
        /\ lastCall.data[1].status = "Pending"
        /\ store[lastCall.data[1]._id].status = "Pending"

\* C8: no request changes the _id or the createdAt of a stored task.
IdCreatedAtImmutable ==
    [][\A i \in DOMAIN store \cap DOMAIN store' :
          /\ store'[i]._id = store[i]._id
          /\ store'[i].createdAt = store[i].createdAt]_vars

\* a POST or PUT has just been served
Wrote == lastCall'.n # lastCall.n /\ lastCall'.method \in {"create", "update"}

OutsideEnum(v) ==
    ~(v.t = "str" /\ v.s \in {"Pending", "In Progress", "Completed"})

\* C9: every stored status is one of the three, and a POST or PUT whose
\* status is outside them is answered 400 and leaves the store as it was.
StatusInEnum ==
    [][/\ \A i \in DOMAIN store' :
             store'[i].status \in {"Pending", "In Progress", "Completed"}
       /\ (/\ Wrote
           /\ Has(lastCall'.body, "status")
           /\ OutsideEnum(lastCall'.body.status))
          => (lastCall'.code = 400 /\ store' = store)]_vars

\* a PUT with a status outside the enumeration was refused for a stored task
StatusRejected ==
    /\ lastCall.method = "update"
    /\ lastCall.id \in DOMAIN store
    /\ lastCall.up
    /\ Has(lastCall.body, "status")
    /\ lastCall.body.status = JStr("pending")
    /\ lastCall.code = 400

MissingOrEmpty(body, f) ==
    \/ ~Has(body, f)
    \/ body[f].t # "str"
    \/ body[f].s = <<>>

\* C10: title and description of every stored task are non-empty; a POST
\* without a title or a description (or with an empty one) is answered 400 and
\* stores nothing; a PUT that would empty one of them is answered 400 and
\* changes nothing.
TitleDescriptionNonEmpty ==
    [][/\ \A i \in DOMAIN store' :
             store'[i].title # <<>> /\ store'[i].description # <<>>
       /\ (/\ lastCall'.n # lastCall.n
           /\ lastCall'.method = "create"
           /\ (MissingOrEmpty(lastCall'.body, "title")
               \/ MissingOrEmpty(lastCall'.body, "description")))
          => (lastCall'.code = 400 /\ store' = store)
       /\ (/\ lastCall'.n # lastCall.n
           /\ lastCall'.method = "update"
           /\ \E f \in {"title", "description"} :
                 Has(lastCall'.body, f) /\ MissingOrEmpty(lastCall'.body, f))
          => (lastCall'.code = 400 /\ store' = store)]_vars

\* a PUT with an empty title was refused for a stored task
EmptyTitleRejected ==
    /\ lastCall.method = "update"
    /\ lastCall.id \in DOMAIN store
    /\ lastCall.up
    /\ Has(lastCall.body, "title")
    /\ lastCall.body.title = JStr(<<>>)
    /\ lastCall.code = 400

\* a DELETE has just been served
Deleted == lastCall'.n # lastCall.n /\ lastCall'.method = "delete"

\* C11: a DELETE of an id the store does not hold is never answered 204 and
\* changes nothing, and is answered 404 when the id is well formed and the
\* store answers; 204 is given only for a stored id, whose task is then gone,
\* so a second DELETE of the same id is answered 404.
DeleteNotIdempotent ==
    [][Deleted =>
          /\ lastCall'.id \notin DOMAIN store =>
                /\ lastCall'.code # 204
                /\ store' = store
                /\ (lastCall'.up /\ lastCall'.id # BadId) => lastCall'.code = 404
          /\ (lastCall'.id \in DOMAIN store /\ lastCall'.up) =>
                lastCall'.code = 204
          /\ lastCall'.code = 204 =>
                /\ lastCall'.id \in DOMAIN store
                /\ DOMAIN store' = DOMAIN store \ {lastCall'.id}
                /\ \A i \in DOMAIN store' : store'[i] = store[i]]_vars

\* a task that was created and deleted is deleted again: not found
SecondDeleteNotFound ==
    /\ lastCall.method = "delete"
    /\ lastCall.up
    /\ lastCall.id # BadId
    /\ lastCall.id < nextId
    /\ lastCall.id \notin DOMAIN store
    /\ lastCall.code = 404


\* C12: when a create or a delete fails (an answer that is not a success, or
\* no answer at all) the cache is left as it was, no re-fetch is issued and
\* the toast raised is the error one.
FailedWriteLeavesCache ==
    [][\A op \in inflight :
          (/\ op.kind \in {"create", "delete"}
           /\ Settled(op)
           /\ ~ResponseOk(op)
           /\ Gone(op))
          => /\ tasks' = tasks
             /\ refreshTrigger' = refreshTrigger
             /\ nextOid' = nextOid
             /\ notification' = (IF op.kind = "create" THEN "create error"
                                 ELSE "delete error")]_vars


\* the request just served carries input the schema's validators refuse
InvalidInput(c) ==
    \/ c.method = "create" /\ ~DocOk(c.body)
    \/ c.method = "update" /\ ~PathsOk(c.body)

\* the request just served names a well-formed id the store does not hold
UnknownId(c) ==
    /\ c.method \in {"get", "update", "delete"}
    /\ c.id # BadId
    /\ c.id \notin DOMAIN store

\* C13: every operation answers 400 to input the validators refuse, 500 when
\* the store fails on a request with valid input, and 404 when the store
\* answers and the id is unknown.
UniformErrorMapping ==
    [][lastCall'.n # lastCall.n =>
          /\ InvalidInput(lastCall') => lastCall'.code = 400
          /\ (~InvalidInput(lastCall') /\ ~lastCall'.up) => lastCall'.code = 500
          /\ (~InvalidInput(lastCall') /\ lastCall'.up /\ UnknownId(lastCall'))
                => lastCall'.code = 404]_vars


\* the write just served fails in the store: its input is refused, its id is
\* malformed or unknown, or the store call rejects
WriteFails(c) ==
    \/ InvalidInput(c)
    \/ UnknownId(c)
    \/ c.method \in {"update", "delete"} /\ c.id = BadId
    \/ ~c.up

\* C14: a POST, PUT or DELETE that fails in the store is answered with an
\* error status (400, 404 or 500) and leaves every stored task as it was; the
\* store changes only under an answer 200, 201 or 204.
FailedWriteNoEffect ==
    [][(lastCall'.n # lastCall.n
        /\ lastCall'.method \in {"create", "update", "delete"})
       => /\ WriteFails(lastCall') =>
                /\ lastCall'.code \in {400, 404, 500}
                /\ store' = store
          /\ lastCall'.code \notin {200, 201, 204} => store' = store]_vars

\* the store call of a PUT or DELETE for a stored task was rejected
StoreFailureOnWrite ==
    /\ lastCall.method \in {"update", "delete"}
    /\ ~lastCall.up
    /\ lastCall.id \in DOMAIN store
    /\ lastCall.code \in {400, 500}


---------------------------------------------------------------------------
(* More claims about the client, checked under Spec *)

\* C15: in the step that issues the advance of task T to status S, the cache
\* keeps its length and its ids in their order, the entry of T becomes the
\* old entry with status S and nothing else changed, and every other entry
\* is the same as before.
OptimisticStep ==
    [][\A o \in inflight' :
          (IssuedNow(o) /\ o.kind = "update") =>
              /\ o.stage = "sent"
              /\ Len(tasks') = Len(tasks)
              /\ \E i \in 1..Len(tasks) : tasks[i]._id = o.id
              /\ \A i \in 1..Len(tasks) :
                    /\ tasks'[i]._id = tasks[i]._id
                    /\ tasks[i]._id = o.id =>
                          /\ tasks'[i].status = o.status
                          /\ tasks'[i] = [tasks[i] EXCEPT !.status = o.status]
                    /\ tasks[i]._id # o.id => tasks'[i] = tasks[i]]_vars

\* an advance has just been issued from a list of two tasks: its task shows
\* the target status and the other task is as in the snapshot
AdvanceJustIssued ==
    \E op \in inflight :
        /\ op.kind = "update"
        /\ op.stage = "sent"
        /\ op.oid = nextOid
        /\ Len(tasks) = 2
        /\ Len(op.snap) = 2
        /\ \E i, j \in 1..2 :
              /\ i # j
              /\ tasks[i]._id = op.id
              /\ tasks[i].status = op.status
              /\ tasks[i].status # op.snap[i].status
              /\ tasks[j] = op.snap[j]


\* C16: when a list fetch resolves with a success its answer becomes the
\* whole cache, whether or not requests issued after it have resolved before
\* it; a fetch that fails leaves the cache alone.  So a fetch issued earlier
\* that resolves later overwrites what a later fetch has set.
ResolveOrderWins ==
    [][\A op \in inflight :
          (op.kind = "list" /\ Settled(op) /\ Gone(op)) =>
              /\ ResponseOk(op) => tasks' = op.data
              /\ ~ResponseOk(op) => tasks' = tasks]_vars

\* the first fetch (no filter) resolved after the fetch for the Pending
\* filter: the advance in flight was clicked on the one-task Pending list,
\* and the cache is now the two-task answer of the first fetch
StaleFetchOverwrote ==
    /\ filterStatus = "Pending"
    /\ nextOid = 3
    /\ Len(tasks) = 2
    /\ \E i \in 1..Len(tasks) : tasks[i].status = "Completed"
    /\ \E u \in inflight :
          /\ inflight = {u}
          /\ u.kind = "update"
          /\ u.oid = 3
          /\ Len(u.snap) = 1
          /\ u.snap[1].status = "Pending"


\* C17: whenever the loading flag is off, no list fetch, create request or
\* delete request is waiting for its response.
LoadingTracksInflight ==
    ~loading =>
        \A op \in inflight :
            op.kind \in {"list", "create", "delete"} => op.stage # "sent"


---------------------------------------------------------------------------
(* SpecBoot: the backend process (backend/index.js) from its start, and the *)
(* requests it serves.  server is where the process has got to:            *)
(* "connecting" (awaiting mongoose.connect), "connected" (connectDB has     *)
(* resolved, its then-callback is due), "listening", or "exited".  The      *)
(* connection may drop and come back while the process runs; a request     *)
(* served while it is down has its store call rejected.                    *)

\* a connectDB whose catch block only logs: the promise resolves all the same
ConnectFail_NoExit ==
    /\ server = "connecting"
    /\ server' = "connected"
    /\ connection' = "disconnected"
    /\ UNCHANGED <<serverVars, lastCall, clientVars>>

\* connectDB: mongoose.connect resolves
ConnectOk ==
    /\ server = "connecting"
    /\ server' = "connected"
    /\ connection' = "connected"
    /\ UNCHANGED <<serverVars, lastCall, clientVars>>

\* connectDB: mongoose.connect rejects, process.exit(1)
ConnectFail ==
    /\ server = "connecting"
    /\ server' = "exited"
    /\ connection' = "disconnected"
    /\ UNCHANGED <<serverVars, lastCall, clientVars>>

\* connectDB().then(() => app.listen(PORT, ...))
Listen ==
    /\ server = "connected"
    /\ server' = "listening"
    /\ UNCHANGED <<connection, serverVars, lastCall, clientVars>>

\* the store goes away while the process runs
ConnectionLost ==
    /\ server \in {"connected", "listening"}
    /\ connection = "connected"
    /\ connection' = "disconnected"
    /\ UNCHANGED <<server, serverVars, lastCall, clientVars>>

\* the driver reconnects
Reconnect ==
    /\ server \in {"connected", "listening"}
    /\ connection = "disconnected"
    /\ connection' = "connected"
    /\ UNCHANGED <<server, serverVars, lastCall, clientVars>>

\* app.use('/api/tasks', taskRoutes): a listening process serves a request;
\* its store call is answered only over a live connection
Serve ==
    /\ server = "listening"
    /\ lastCall.n < MaxBootCalls
    /\ NextApi
    /\ lastCall'.up = (connection = "connected")

InitBoot ==
    /\ store = <<>>
    /\ now = 2
    /\ nextId = 1
    /\ lastCall = NoCall
    /\ ClientInitial
    /\ server = "connecting"
    /\ connection = "disconnected"

NextBoot ==
    \/ ConnectOk
    \/ ConnectFail
    \/ Listen
    \/ ConnectionLost
    \/ Reconnect
    \/ Serve

SpecBoot == InitBoot /\ [][NextBoot]_vars

---------------------------------------------------------------------------
(* Claims about the backend process, checked under SpecBoot *)

\* the steps of the start-up: connecting leads to connected only with the
\* connection made, or else to exited; listening is entered from connected
\* only; an exited process stays exited and serves nothing; requests are
\* served by a listening process only
StartupSteps ==
    /\ (server = "connecting" /\ server' # server) =>
          \/ server' = "connected" /\ connection' = "connected"
          \/ server' = "exited"
    /\ (server' = "listening" /\ server # "listening") => server = "connected"
    /\ server = "exited" => (server' = "exited" /\ lastCall' = lastCall)
    /\ lastCall'.n # lastCall.n => server = "listening"

\* C18 as stated: the process listens only after the connection succeeded,
\* exits without ever listening if it failed, and every request is served
\* with the store connected.
NeverServedDisconnected ==
    [][/\ StartupSteps
       /\ lastCall'.n # lastCall.n => connection = "connected"]_vars

\* C18 amended: the process listens only after the connection succeeded and
\* exits without ever listening if it failed, so every request is served
\* after the store was connected once; the store call of a request served
\* while the connection is down is rejected.
ListenAfterConnect ==
    [][/\ StartupSteps
       /\ (lastCall'.n # lastCall.n /\ connection # "connected")
             => (~lastCall'.up /\ lastCall'.code \in {400, 500})]_vars

\* a listening process has served a POST that stored a task
ServedAfterStartup ==
    /\ server = "listening"
    /\ lastCall.method = "create"
    /\ lastCall.up
    /\ lastCall.code = 201
    /\ store # <<>>


====
